---- MODULE Spec2Model ----
(***************************************************************************)
(* A state-machine model of wizwalker's Client (src/wizwalker/client.py).  *)
(*                                                                         *)
(* Callers are asyncio tasks.  A task runs one Client call at a time; an   *)
(* action of the model is the code a call runs between two suspension      *)
(* points (an await of the hook handler, of the click lock, of a sleep or  *)
(* of a timed key press).  What a call does to the outside (remote memory, *)
(* the window's message queue, the hook handler) is recorded in trace[t],  *)
(* the effects of task t's current call, in program order.                 *)
(***************************************************************************)
EXTENDS Integers, Sequences, FiniteSets

\* ---------------------------------------------------------------- bounds
NumClients == 2
NumTasks == 2
\* how many button messages per window the model remembers the order of
MaxButtons == 2
\* counters of hook-handler calls and of constructions saturate here
MaxCount == 3

Clients == 1 .. NumClients
Tasks == 1 .. NumTasks

\* ------------------------------------------------------- program constants
WM_MOUSEMOVE == 512
WM_LBUTTONDOWN == 513
WM_RBUTTONDOWN == 516

\* client-area coordinates the callers pass
Points == {<<1, 2>>, <<3, 1>>}
\* sleep_duration values: 0.0 (the default) and a positive one
SleepDurations == {0, 1}

VARIABLES
    target,      \* [Tasks -> the Client the task drives]
    pc,          \* [Tasks -> where the task's current call is suspended]
    call,        \* [Tasks -> the current call: operation, Client, arguments, locals]
    trace,       \* [Tasks -> the effects of the current call, in order]
    result,      \* [Tasks -> how the current call ended]
    click_lock,  \* [Clients -> self.click_lock and the state of that asyncio.Lock]
    cache,       \* [Clients -> the cached properties stored in the instance]
    constructed, \* [Clients -> how many objects of each kind were constructed]
    running,     \* [Clients -> whether the attached process is alive]
    hook,        \* [Clients -> the calls the hook handler has received]
    mouse,       \* [Clients -> the mouse position in the remote process]
    body_state,  \* [Clients -> the remote actor body: position and yaw]
    buttons      \* [Clients -> the order of button messages the window got]

vars == <<target, pc, call, trace, result, click_lock, cache, constructed,
          running, hook, mouse, body_state, buttons>>

\* ------------------------------------------------------------ the values
Bump(n) == IF n < MaxCount THEN n + 1 ELSE n

Kinds == {"process_id", "stats", "body", "duel", "quest_position"}

\* PlayerStats, PlayerActorBody, PlayerDuel, CurrentQuestPosition
ObjectKinds == Kinds \ {"process_id"}

KindNo ==
    [process_id |-> 0, stats |-> 1, body |-> 2, duel |-> 3, quest_position |-> 4,
     click_lock |-> 5]

\* The identity of an object: the Client whose code constructed it, what it is,
\* and which construction of that kind by that Client it was.  Two
\* constructions never yield the same identity; 0 stands for None.
ObjId(c, k, serial) == 100 * c + 10 * KindNo[k] + serial

NoCall == [op |-> "none"]

\* self.click_lock = None
NoLock == [id |-> 0, locked |-> FALSE, waiters |-> <<>>]

\* asyncio.Lock()
NewLock(id) == [id |-> id, locked |-> FALSE, waiters |-> <<>>]

\* where the window's client area is on the screen
WindowOrigin(c) == <<10 * c, 5 * c>>

\* user32.ClientToScreen overwrites the point with screen coordinates
ClientToScreen(c, xy) == <<xy[1] + WindowOrigin(c)[1], xy[2] + WindowOrigin(c)[2]>>

ButtonDownMessage(right_click) ==
    IF right_click THEN WM_RBUTTONDOWN ELSE WM_LBUTTONDOWN

\* a button-up that repeats the code of the button-down
ButtonUpSameCode(button_down_message) == button_down_message

\* click, line 172: button_down_message + 1
ButtonUpMessage(button_down_message) == button_down_message + 1

SendMethod(use_post) == IF use_post THEN "PostMessageW" ELSE "SendMessageW"

\* the arguments click passes to set_mouse_position
ClickMouseArgs(cl) ==
    [xy |-> cl.xy, convert_from_client |-> TRUE, use_post |-> FALSE]

\* what the memory hooks raise: the enum could not be decoded, the hook is not
\* active, the address read from the hook is not valid
ReadErrors == {"ReadingEnumFailed", "HookNotActive", "InvalidAddress"}

\* how an awaited write, position read or activation of the hook subsystem
\* ends: it returns, or it raises one of these
HookOutcomes == {"ok", "ReadingEnumFailed", "HookNotActive"}

\* a caller that goes on after an awaited call raised
AwaitNeverFails(outcome) == FALSE

\* an awaited call that raises ends the coroutine awaiting it, when no
\* try statement is around the await
AwaitFailed(outcome) == outcome # "ok"

\* what hook_handler.write_mouse_position returns to its caller
WriteResults == {<<>>, <<1>>}

\* a set_mouse_position that returns None
ReturnsNone(res) == <<>>

\* set_mouse_position, line 213: return res
ReturnValue(res) == res

\* ------------------------------------------------------------ the effects
EAcquire(id) == [kind |-> "acquire", lock |-> id]
ERelease(id) == [kind |-> "release", lock |-> id]
EConvert(xy, ok) == [kind |-> "ClientToScreen", xy |-> xy, ok |-> ok]
EWriteMouse(xy, ok) == [kind |-> "write_mouse_position", xy |-> xy, ok |-> ok]
ESend(method, code, wparam, lparam, ok) ==
    [kind |-> "send", method |-> method, code |-> code,
     wparam |-> wparam, lparam |-> lparam, ok |-> ok]
ESleep(d) == [kind |-> "sleep", seconds |-> d]
\* the exception an awaited call of the hook subsystem raised
ERaised(err) == [kind |-> "raised", error |-> err]
\* the value the awaited write gave and the value the call returned
EReturn(res, value) == [kind |-> "return", write_result |-> res, value |-> value]

\* buttons[c] holds the last MaxButtons button messages of the window
Remember(bt, e) == IF Len(bt) < MaxButtons THEN Append(bt, e) ELSE Append(Tail(bt), e)

\* ------------------------------------------------------------- the tasks
Ready(t) == pc[t] \in {"idle", "done"}

\* the state a click or set_mouse_position step works on: the Client's lock,
\* the call's trace, the remote mouse position and the window's button order
Local(t, c) ==
    [lk |-> click_lock[c], tr |-> trace[t], ms |-> mouse[c], bt |-> buttons[c]]

\* a click lock kept in the class: one attribute for all Clients
CommitSharedLock(t, c, newpc, cl, st, res) ==
    /\ pc' = [pc EXCEPT ![t] = newpc]
    /\ call' = [call EXCEPT ![t] = cl]
    /\ trace' = [trace EXCEPT ![t] = st.tr]
    /\ result' = [result EXCEPT ![t] = res]
    /\ click_lock' = [c2 \in Clients |-> st.lk]
    /\ mouse' = [mouse EXCEPT ![c] = st.ms]
    /\ buttons' = [buttons EXCEPT ![c] = st.bt]

Commit(t, c, newpc, cl, st, res) ==
    /\ pc' = [pc EXCEPT ![t] = newpc]
    /\ call' = [call EXCEPT ![t] = cl]
    /\ trace' = [trace EXCEPT ![t] = st.tr]
    /\ result' = [result EXCEPT ![t] = res]
    /\ click_lock' = [click_lock EXCEPT ![c] = st.lk]
    /\ mouse' = [mouse EXCEPT ![c] = st.ms]
    /\ buttons' = [buttons EXCEPT ![c] = st.bt]

\* a release that also sets self.click_lock back to None
LockDiscarded(lk) == NoLock

\* asyncio.Lock.release: the first waiter, if any, may now run
LockRelease(lk) == [lk EXCEPT !.locked = FALSE]

\* leaving "async with self.click_lock", normally or by an exception
ExitLock(st) ==
    [st EXCEPT !.lk = LockRelease(st.lk),
               !.tr = Append(st.tr, ERelease(st.lk.id))]

\* an exception that leaves click without releasing the lock
RaiseKeepingLock(t, c, cl, st, err) == Commit(t, c, "done", cl, st, err)

\* an exception leaves the call; inside click it passes through the async with
Raise(t, c, cl, st, err) ==
    Commit(t, c, "done", cl, IF cl.op = "click" THEN ExitLock(st) ELSE st, err)

\* click, lines 171-172: the button-up message, then the end of the async with
SendUp(t, c, cl, st) ==
    \E ok \in BOOLEAN :
        LET code == ButtonUpMessage(cl.button_down_message)
            st1 == [st EXCEPT !.tr = Append(@, ESend(cl.send_method, code, 0, 0, ok))]
        IN  IF ok
            THEN Commit(t, c, "done", cl,
                        ExitLock([st1 EXCEPT !.bt = Remember(@, <<t, "up">>)]), "ok")
            ELSE Raise(t, c, cl, st1, "SendError")

\* click, lines 167-170: the button-down message and the optional sleep
SendDown(t, c, cl, st) ==
    \E ok \in BOOLEAN :
        LET st1 == [st EXCEPT !.tr = Append(@, ESend(cl.send_method,
                                                     cl.button_down_message, 1, 0, ok))]
            st2 == [st1 EXCEPT !.bt = Remember(@, <<t, "down">>)]
        IN  IF ~ok
            THEN Raise(t, c, cl, st1, "SendError")
            ELSE IF cl.sleep_duration > 0
                 THEN Commit(t, c, "sleep", cl,
                             [st2 EXCEPT !.tr = Append(@, ESleep(cl.sleep_duration))],
                             "none")
                 ELSE SendUp(t, c, cl, st2)

\* a set_mouse_position that does not look at what ClientToScreen returned
ConversionNeverFails(ret) == FALSE

\* set_mouse_position, line 201: ClientToScreen returns 0 when it fails
ConversionFailed(ret) == ret = 0

\* set_mouse_position, lines 192-209: up to the await of the remote write
SetMouseEnter(t, c, cl, args, st) ==
    LET sm == SendMethod(args.use_post) IN
    IF args.convert_from_client
    THEN \E ret \in {0, 1} :
            LET st1 == [st EXCEPT !.tr = Append(@, EConvert(args.xy, ret # 0))]
                \* the point is overwritten only by a call that succeeds
                point == IF ret # 0 THEN ClientToScreen(c, args.xy) ELSE args.xy
            IN  IF ConversionFailed(ret)
                THEN Raise(t, c, cl, st1, "ConversionFailed")
                ELSE Commit(t, c, "write_mouse",
                            [cl EXCEPT !.sm_xy = point, !.sm_send_method = sm],
                            st1, "none")
    ELSE Commit(t, c, "write_mouse",
                [cl EXCEPT !.sm_xy = args.xy, !.sm_send_method = sm], st, "none")

\* click, lines 164-166: inside the lock, the call of set_mouse_position
LockedSection(t, c, cl, st) ==
    LET st1 == [st EXCEPT !.lk = [@ EXCEPT !.locked = TRUE],
                          !.tr = Append(@, EAcquire(st.lk.id))]
    IN  SetMouseEnter(t, c, cl, ClickMouseArgs(cl), st1)

\* a click that makes a new lock on every call
EnsureLockAlwaysNew(c) ==
    NewLock(ObjId(c, "click_lock", constructed[c]["click_lock"] + 1))

\* click, lines 161-162: the lock is created when the attribute is None
EnsureLock(c) ==
    IF click_lock[c].id = 0
    THEN NewLock(ObjId(c, "click_lock", constructed[c]["click_lock"] + 1))
    ELSE click_lock[c]

\* an acquire that takes an unlocked lock past the callers waiting for it
LockIsFreeBarging(lk) == ~lk.locked

\* asyncio.Lock.acquire takes a free lock at once when nobody waits for it
LockIsFree(lk) == ~lk.locked /\ lk.waiters = <<>>

ClickCall(t, c, xy, right_click, sleep_duration, use_post) ==
    /\ Ready(t)
    /\ LET cl == [op |-> "click", client |-> c, xy |-> xy,
                  right_click |-> right_click,
                  sleep_duration |-> sleep_duration, use_post |-> use_post,
                  button_down_message |-> ButtonDownMessage(right_click),
                  send_method |-> SendMethod(use_post),
                  sm_xy |-> <<0, 0>>, sm_send_method |-> ""]
           lk == EnsureLock(c)
           st == [Local(t, c) EXCEPT !.lk = lk, !.tr = <<>>]
       IN  /\ constructed' = IF click_lock[c].id = 0
                             THEN [constructed EXCEPT ![c]["click_lock"] = Bump(@)]
                             ELSE constructed
           /\ IF LockIsFree(lk)
              THEN LockedSection(t, c, cl, st)
              ELSE Commit(t, c, "wait_lock", cl,
                          [st EXCEPT !.lk = [lk EXCEPT !.waiters = Append(@, t)]],
                          "none")
    /\ UNCHANGED <<target, cache, running, hook, body_state>>

\* the lock was released and this task is the first waiter
LockWakeup(t) ==
    /\ pc[t] = "wait_lock"
    /\ LET c == call[t].client
           lk == click_lock[c]
       IN  /\ ~lk.locked
           /\ lk.waiters # <<>>
           /\ Head(lk.waiters) = t
           /\ LockedSection(t, c, call[t],
                  [Local(t, c) EXCEPT !.lk = [lk EXCEPT !.waiters = Tail(@)]])
    /\ UNCHANGED <<target, cache, constructed, running, hook, body_state>>

SetMousePositionCall(t, c, xy, convert_from_client, use_post) ==
    /\ Ready(t)
    /\ LET cl == [op |-> "set_mouse_position", client |-> c, xy |-> xy,
                  convert_from_client |-> convert_from_client,
                  use_post |-> use_post,
                  sm_xy |-> <<0, 0>>, sm_send_method |-> ""]
           args == [xy |-> xy, convert_from_client |-> convert_from_client,
                    use_post |-> use_post]
       IN  SetMouseEnter(t, c, cl, args, [Local(t, c) EXCEPT !.tr = <<>>])
    /\ UNCHANGED <<target, cache, constructed, running, hook, body_state>>

\* set_mouse_position, lines 209-213: the remote write returns or fails, then
\* the mouse-move message; inside click, lines 167-172 follow
WriteMouseDone(t) ==
    /\ pc[t] = "write_mouse"
    /\ LET c == call[t].client
           cl == call[t]
           st == Local(t, c)
       IN  \E outcome \in HookOutcomes, res \in WriteResults :
            LET wrote == outcome = "ok"
                st1 == [st EXCEPT !.tr = Append(@, EWriteMouse(cl.sm_xy, wrote)),
                                  !.ms = IF wrote THEN cl.sm_xy ELSE @]
            IN  IF AwaitFailed(outcome)
                THEN Raise(t, c, cl, [st1 EXCEPT !.tr = Append(@, ERaised(outcome))],
                           outcome)
                ELSE \E sent \in BOOLEAN :
                        LET st3 == [st1 EXCEPT !.tr = Append(@,
                                       ESend(cl.sm_send_method, WM_MOUSEMOVE, 0, 0, sent))]
                        IN  IF ~sent
                            THEN Raise(t, c, cl, st3, "SendError")
                            ELSE IF cl.op = "click"
                                 THEN SendDown(t, c, cl, st3)
                                 ELSE Commit(t, c, "done", cl,
                                             [st3 EXCEPT !.tr = Append(@,
                                                EReturn(res, ReturnValue(res)))],
                                             "ok")
    /\ UNCHANGED <<target, cache, constructed, running, hook, body_state>>

\* click, line 170: asyncio.sleep returns
SleepDone(t) ==
    /\ pc[t] = "sleep"
    /\ SendUp(t, call[t].client, call[t], Local(t, call[t].client))
    /\ UNCHANGED <<target, cache, constructed, running, hook, body_state>>

\* ------------------------------------------------- the cached properties
\* the window handle a Client is constructed with
WindowHandle(c) == 100 + c

\* utils.get_pid_from_handle
GetPidFromHandle(window_handle) == 1000 + window_handle

\* what a property's getter returns: the process id, or a new object
Getter(c, k) ==
    IF k = "process_id"
    THEN GetPidFromHandle(WindowHandle(c))
    ELSE ObjId(c, k, constructed[c][k] + 1)

\* a plain property: the getter runs on every read and nothing is stored
UncachedProperty(c, k) ==
    [value |-> Getter(c, k), cache |-> cache,
     constructed |-> [constructed EXCEPT ![c][k] = Bump(@)]]

\* functools.cached_property: the value stored in the instance if there is
\* one; otherwise the getter runs and its value is stored in the instance
CachedProperty(c, k) ==
    IF cache[c][k] # 0
    THEN [value |-> cache[c][k], cache |-> cache, constructed |-> constructed]
    ELSE [value |-> Getter(c, k),
          cache |-> [cache EXCEPT ![c][k] = Getter(c, k)],
          constructed |-> [constructed EXCEPT ![c][k] = Bump(@)]]

Lookup(p) ==
    /\ cache' = p.cache
    /\ constructed' = p.constructed

EGet(k, value) == [kind |-> "get", name |-> k, obj |-> value]

Step(t, newpc, cl, tr, res) ==
    /\ pc' = [pc EXCEPT ![t] = newpc]
    /\ call' = [call EXCEPT ![t] = cl]
    /\ trace' = [trace EXCEPT ![t] = tr]
    /\ result' = [result EXCEPT ![t] = res]

\* a caller reads client.process_id, .stats, .body, .duel or .quest_position
AccessCall(t, c, k) ==
    /\ Ready(t)
    /\ LET p == CachedProperty(c, k)
       IN  /\ Lookup(p)
           /\ Step(t, "done", [op |-> "get", client |-> c, name |-> k],
                   <<EGet(k, p.value)>>, "ok")
    /\ UNCHANGED <<target, click_lock, running, hook, mouse, body_state, buttons>>

\* ------------------------------------------------------------ in_battle
DuelPhases == {"planning", "execution", "ended"}

EDuelPhase(outcome) == [kind |-> "duel_phase", outcome |-> outcome]

\* an in_battle that lets ReadingEnumFailed through
InBattleResultUncaught(outcome) ==
    IF outcome \in ReadErrors
    THEN outcome
    ELSE IF outcome # "ended" THEN "True" ELSE "False"

\* an in_battle that catches every exception of the read
InBattleResultSwallowsAll(outcome) ==
    IF outcome \in ReadErrors
    THEN "False"
    ELSE IF outcome # "ended" THEN "True" ELSE "False"

\* in_battle, lines 104-109, given how the read of the duel phase ended
InBattleResult(outcome) ==
    IF outcome = "ReadingEnumFailed"
    THEN "False"
    ELSE IF outcome \in ReadErrors
         THEN outcome
         ELSE IF outcome # "ended" THEN "True" ELSE "False"

InBattleCall(t, c) ==
    /\ Ready(t)
    /\ LET p == CachedProperty(c, "duel")
       IN  /\ Lookup(p)
           /\ Step(t, "duel_phase", [op |-> "in_battle", client |-> c],
                   <<EGet("duel", p.value)>>, "none")
    /\ UNCHANGED <<target, click_lock, running, hook, mouse, body_state, buttons>>

DuelPhaseDone(t) ==
    /\ pc[t] = "duel_phase"
    /\ \E outcome \in DuelPhases \cup ReadErrors :
        Step(t, "done", call[t], Append(trace[t], EDuelPhase(outcome)),
             InBattleResult(outcome))
    /\ UNCHANGED <<target, click_lock, cache, constructed, running, hook,
                   mouse, body_state, buttons>>

\* ------------------------------------------------- close, activate_hooks
EIsRunning(alive) == [kind |-> "is_running", alive |-> alive]
EHook(name) == [kind |-> "hook_handler", name |-> name]

\* utils.check_if_process_running on the attached process handle
IsRunning(c) == running[c]

\* a close that does not ask whether the process is running
CloseNeverReturnsEarly(c) == FALSE

\* close, lines 51-52: whether close returns without touching the hook handler
CloseReturnsEarly(c) == ~IsRunning(c)

CloseCall(t, c) ==
    /\ Ready(t)
    /\ LET cl == [op |-> "close", client |-> c]
           tr == <<EIsRunning(IsRunning(c))>>
       IN  IF CloseReturnsEarly(c)
           THEN /\ Step(t, "done", cl, tr, "ok")
                /\ UNCHANGED hook
           ELSE /\ Step(t, "hook_close", cl, Append(tr, EHook("close")), "none")
                /\ hook' = [hook EXCEPT ![c].close = Bump(@)]
    /\ UNCHANGED <<target, click_lock, cache, constructed, running, mouse,
                   body_state, buttons>>

\* hook_handler.close() returns or fails
HookCloseDone(t) ==
    /\ pc[t] = "hook_close"
    /\ \E ok \in BOOLEAN :
        Step(t, "done", call[t], trace[t], IF ok THEN "ok" ELSE "HookError")
    /\ UNCHANGED <<target, click_lock, cache, constructed, running, hook,
                   mouse, body_state, buttons>>

\* a hook handler that is asked twice
ActivateAllHooksTwice(h) == [h EXCEPT !.activate = Bump(Bump(@))]

\* activate_hooks, line 115: the hook handler gets one activate_all_hooks call
ActivateAllHooks(h) == [h EXCEPT !.activate = Bump(@)]

ActivateHooksCall(t, c) ==
    /\ Ready(t)
    /\ Step(t, "activate", [op |-> "activate_hooks", client |-> c],
            <<EHook("activate_all_hooks")>>, "none")
    /\ hook' = [hook EXCEPT ![c] = ActivateAllHooks(@)]
    /\ UNCHANGED <<target, click_lock, cache, constructed, running, mouse,
                   body_state, buttons>>

\* hook_handler.activate_all_hooks() returns or fails
ActivateDone(t) ==
    /\ pc[t] = "activate"
    /\ \E outcome \in HookOutcomes :
        IF AwaitFailed(outcome)
        THEN Step(t, "done", call[t], Append(trace[t], ERaised(outcome)), outcome)
        ELSE Step(t, "done", call[t], trace[t], "ok")
    /\ UNCHANGED <<target, click_lock, cache, constructed, running, hook,
                   mouse, body_state, buttons>>

\* the controlled process exits
ProcessExit(c) ==
    /\ running[c]
    /\ running' = [running EXCEPT ![c] = FALSE]
    /\ UNCHANGED <<target, pc, call, trace, result, click_lock, cache, constructed,
                   hook, mouse, body_state, buttons>>

\* ------------------------------------------------------- teleport, goto
\* constants.WIZARD_SPEED, the base movement speed
WIZARD_SPEED == 580

\* positions a caller teleports to
Positions == {<<0, 0, 0>>, <<3, 4, 5>>}
\* the yaw argument of teleport: <<>> is None, <<y>> is the number y
YawArgs == {<<>>, <<0>>}
\* the x, y a caller walks to, and the speed multipliers
Targets == {<<10, 0>>, <<3, 4>>}
Multipliers == {1, 2}

EReadPosition(xyz, ok) == [kind |-> "read_position", xyz |-> xyz, ok |-> ok]
EWritePosition(xyz, ok) == [kind |-> "write_position", xyz |-> xyz, ok |-> ok]
EWriteYaw(yaw, ok) == [kind |-> "write_yaw", yaw |-> yaw, ok |-> ok]
EKey(key, seconds, ok) ==
    [kind |-> "timed_send_key", key |-> key, seconds |-> seconds, ok |-> ok]

\* utils.XYZ.__sub__ is the Euclidean distance of two points; the model keeps
\* its square, which is an integer
XYZSub(a, b) ==
    (a[1] - b[1]) * (a[1] - b[1]) + (a[2] - b[2]) * (a[2] - b[2])
        + (a[3] - b[3]) * (a[3] - b[3])

\* utils.calculate_perfect_yaw: the heading from one point to another in the
\* horizontal plane, here named by the horizontal displacement
CalculatePerfectYaw(current_xyz, target_xyz) ==
    1000 * (target_xyz[1] - current_xyz[1]) + (target_xyz[2] - current_xyz[2])

\* a target built without the current z
GotoTargetOnGround(x, y, current_xyz) == <<x, y, 0>>

\* goto, line 227
GotoTarget(x, y, current_xyz) == <<x, y, current_xyz[3]>>

\* goto, line 229: distance / (WIZARD_SPEED * speed_multiplier), the distance
\* given by its square: the quotient sqrt(distance2) / divisor
MoveSeconds(distance2, speed_multiplier) ==
    [distance2 |-> distance2, divisor |-> WIZARD_SPEED * speed_multiplier]

\* "if yaw:", which takes a yaw of 0 for no yaw
YawTruthy(yaw) == yaw # <<>> /\ yaw[1] # 0

\* teleport, line 248
YawGiven(yaw) == yaw # <<>>

TeleportCall(t, c, xyz, yaw) ==
    /\ Ready(t)
    /\ LET p == CachedProperty(c, "body")
       IN  /\ Lookup(p)
           /\ Step(t, "write_position",
                   [op |-> "teleport", client |-> c, xyz |-> xyz, yaw |-> yaw],
                   <<EGet("body", p.value)>>, "none")
    /\ UNCHANGED <<target, click_lock, running, hook, mouse, body_state, buttons>>

\* teleport, lines 246-249: body.write_position returns or fails
WritePositionDone(t) ==
    /\ pc[t] = "write_position"
    /\ LET c == call[t].client
           cl == call[t]
       IN  \E outcome \in HookOutcomes :
            LET ok == outcome = "ok"
                tr == Append(trace[t], EWritePosition(cl.xyz, ok))
            IN
            IF AwaitFailed(outcome)
            THEN /\ Step(t, "done", cl, Append(tr, ERaised(outcome)), outcome)
                 /\ UNCHANGED <<cache, constructed, body_state>>
            ELSE /\ body_state' = IF ok THEN [body_state EXCEPT ![c].position = cl.xyz]
                                  ELSE body_state
                 /\ IF YawGiven(cl.yaw)
                    THEN LET p == CachedProperty(c, "body")
                         IN  /\ Lookup(p)
                             /\ Step(t, "write_yaw", [cl EXCEPT !.yaw = <<cl.yaw[1]>>],
                                     Append(tr, EGet("body", p.value)), "none")
                    ELSE /\ Step(t, "done", cl, tr, "ok")
                         /\ UNCHANGED <<cache, constructed>>
    /\ UNCHANGED <<target, click_lock, running, hook, mouse, buttons>>

GotoCall(t, c, x, y, speed_multiplier) ==
    /\ Ready(t)
    /\ LET p == CachedProperty(c, "body")
       IN  /\ Lookup(p)
           /\ Step(t, "read_position",
                   [op |-> "goto", client |-> c, x |-> x, y |-> y,
                    speed_multiplier |-> speed_multiplier,
                    yaw |-> <<>>, move_seconds |-> MoveSeconds(0, 1)],
                   <<EGet("body", p.value)>>, "none")
    /\ UNCHANGED <<target, click_lock, running, hook, mouse, body_state, buttons>>

\* goto, lines 226-232: body.position returns or fails, then the arithmetic
ReadPositionDone(t) ==
    /\ pc[t] = "read_position"
    /\ LET c == call[t].client
           cl == call[t]
           current_xyz == body_state[c].position
       IN  \E outcome \in HookOutcomes :
            LET tr == Append(trace[t], EReadPosition(current_xyz, outcome = "ok")) IN
            IF AwaitFailed(outcome)
            THEN /\ Step(t, "done", cl, Append(tr, ERaised(outcome)), outcome)
                 /\ UNCHANGED <<cache, constructed>>
            ELSE LET target_xyz == GotoTarget(cl.x, cl.y, current_xyz)
                     distance == XYZSub(current_xyz, target_xyz)
                     move_seconds == MoveSeconds(distance, cl.speed_multiplier)
                     yaw == CalculatePerfectYaw(current_xyz, target_xyz)
                     p == CachedProperty(c, "body")
                 IN  /\ Lookup(p)
                     /\ Step(t, "write_yaw",
                             [cl EXCEPT !.yaw = <<yaw>>, !.move_seconds = move_seconds],
                             Append(tr, EGet("body", p.value)), "none")
    /\ UNCHANGED <<target, click_lock, running, hook, mouse, body_state, buttons>>

\* body.write_yaw returns or fails: the end of teleport (line 249), or in goto
\* the timed press of the W key (lines 232-233)
WriteYawDone(t) ==
    /\ pc[t] = "write_yaw"
    /\ LET c == call[t].client
           cl == call[t]
       IN  \E outcome \in HookOutcomes :
            LET ok == outcome = "ok"
                tr == Append(trace[t], EWriteYaw(cl.yaw[1], ok))
            IN
            /\ body_state' = IF ok THEN [body_state EXCEPT ![c].yaw = cl.yaw[1]]
                             ELSE body_state
            /\ IF AwaitFailed(outcome)
               THEN Step(t, "done", cl, Append(tr, ERaised(outcome)), outcome)
               ELSE IF cl.op = "goto"
                    THEN Step(t, "key_hold", cl, tr, "none")
                    ELSE Step(t, "done", cl, tr, "ok")
    /\ UNCHANGED <<target, click_lock, cache, constructed, running, hook, mouse,
                   buttons>>

\* goto, line 233: utils.timed_send_key returns or fails
KeyHoldDone(t) ==
    /\ pc[t] = "key_hold"
    /\ \E ok \in BOOLEAN :
        Step(t, "done", call[t],
             Append(trace[t], EKey("W", call[t].move_seconds, ok)),
             IF ok THEN "ok" ELSE "SendError")
    /\ UNCHANGED <<target, click_lock, cache, constructed, running, hook, mouse,
                   body_state, buttons>>

\* --------------------------------------------------------------- Init
NoHookCalls == [close |-> 0, activate |-> 0]

\* __init__, lines 32-38: process_id is read, the other properties are not
InitCache(c) ==
    [k \in Kinds |-> IF k = "process_id" THEN Getter(c, k) ELSE 0]

InitConstructed ==
    [k \in Kinds \cup {"click_lock"} |-> IF k = "process_id" THEN 1 ELSE 0]

StartPosition == <<0, 0, 0>>

Init ==
    /\ target \in [Tasks -> Clients]
    /\ pc = [t \in Tasks |-> "idle"]
    /\ call = [t \in Tasks |-> NoCall]
    /\ trace = [t \in Tasks |-> <<>>]
    /\ result = [t \in Tasks |-> "none"]
    /\ click_lock = [c \in Clients |-> NoLock]
    /\ cache = [c \in Clients |-> InitCache(c)]
    /\ constructed = [c \in Clients |-> InitConstructed]
    /\ running = [c \in Clients |-> TRUE]
    /\ hook = [c \in Clients |-> NoHookCalls]
    /\ mouse = [c \in Clients |-> <<0, 0>>]
    /\ body_state = [c \in Clients |-> [position |-> StartPosition, yaw |-> 0]]
    /\ buttons = [c \in Clients |-> <<>>]

\* the keyword arguments a caller leaves at their defaults
DefaultArgs == [right_click |-> {FALSE}, use_post |-> {FALSE},
                convert_from_client |-> {TRUE}]

AnyArgs == [right_click |-> BOOLEAN, use_post |-> BOOLEAN,
            convert_from_client |-> BOOLEAN]

InputSteps(T, A) ==
    \E t \in T :
        \/ \E xy \in Points, right_click \in A.right_click,
              sleep_duration \in SleepDurations, use_post \in A.use_post :
                ClickCall(t, target[t], xy, right_click, sleep_duration, use_post)
        \/ \E xy \in Points, convert_from_client \in A.convert_from_client,
              use_post \in A.use_post :
                SetMousePositionCall(t, target[t], xy, convert_from_client, use_post)
        \/ WriteMouseDone(t)
        \/ SleepDone(t)

InputNext(T, A) == InputSteps(T, A) \/ \E t \in T : LockWakeup(t)

\* concurrent tasks clicking and moving the mouse, flags at their defaults
SpecClick == Init /\ [][InputNext(Tasks, DefaultArgs)]_vars

\* the event loop runs every task that can run, and every remote write and
\* every sleep a click is suspended in comes to its end
ClickFairness ==
    \A t \in Tasks :
        /\ WF_vars(LockWakeup(t))
        /\ WF_vars(WriteMouseDone(t))
        /\ WF_vars(SleepDone(t))

\* click calls with and without a sleep
QueueNext ==
    \E t \in Tasks :
        \/ \E sleep_duration \in SleepDurations :
                ClickCall(t, target[t], <<1, 2>>, FALSE, sleep_duration, FALSE)
        \/ LockWakeup(t)
        \/ WriteMouseDone(t)
        \/ SleepDone(t)

\* concurrent clicks under fair scheduling
SpecQueue == Init /\ [][QueueNext]_vars /\ ClickFairness

\* one task, every combination of arguments; it never has to wait for the lock
SpecInput == Init /\ [][InputSteps({1}, AnyArgs)]_vars

LifeNext(T) ==
    \/ \E t \in T :
        \/ CloseCall(t, target[t])
        \/ HookCloseDone(t)
        \/ ActivateHooksCall(t, target[t])
        \/ ActivateDone(t)
    \/ \E c \in Clients : ProcessExit(c)

\* closing and activating while the process may exit
SpecLife == Init /\ [][LifeNext(Tasks)]_vars

\* one task: its calls follow one another
SpecLifeSeq == Init /\ [][LifeNext({1})]_vars

MoveArgs ==
    [xyz |-> Positions, yaw |-> YawArgs, xy |-> Targets,
     speed_multiplier |-> Multipliers]

\* one teleport and one goto, enough to have them read client.body
FewMoveArgs ==
    [xyz |-> {StartPosition}, yaw |-> {<<>>}, xy |-> {<<10, 0>>},
     speed_multiplier |-> {1}]

MoveNext(A) ==
    \E t \in Tasks :
        \/ \E xyz \in A.xyz, yaw \in A.yaw : TeleportCall(t, target[t], xyz, yaw)
        \/ WritePositionDone(t)
        \/ \E xy \in A.xy, speed_multiplier \in A.speed_multiplier :
                GotoCall(t, target[t], xy[1], xy[2], speed_multiplier)
        \/ ReadPositionDone(t)
        \/ WriteYawDone(t)
        \/ KeyHoldDone(t)

\* teleporting and walking
SpecMove == Init /\ [][MoveNext(MoveArgs)]_vars

StateNext ==
    \E t \in Tasks :
        \/ \E k \in Kinds : AccessCall(t, target[t], k)
        \/ InBattleCall(t, target[t])
        \/ DuelPhaseDone(t)

\* reading the cached properties, directly and through in_battle, teleport and goto
SpecState == Init /\ [][StateNext \/ MoveNext(FewMoveArgs)]_vars

\* no two callers drive the same Client
OneCallerPerClient == \A t1, t2 \in Tasks : t1 # t2 => target[t1] # target[t2]

\* the Clients constructed, and a caller for each
InitApart == Init /\ OneCallerPerClient

\* clicks, reads of the accessors and calls of the hook handler
ClientsNext ==
    \E t \in Tasks :
        \/ ClickCall(t, target[t], <<1, 2>>, FALSE, 1, FALSE)
        \/ WriteMouseDone(t)
        \/ SleepDone(t)
        \/ AccessCall(t, target[t], "stats")
        \/ ActivateHooksCall(t, target[t])
        \/ ActivateDone(t)

\* callers that run concurrently, each on a Client of its own
SpecClients == InitApart /\ [][ClientsNext]_vars

\* every operation of the interface, each with one choice of arguments
OpsNext(T) ==
    \E t \in T :
        \/ ClickCall(t, target[t], <<1, 2>>, FALSE, 0, FALSE)
        \/ SetMousePositionCall(t, target[t], <<3, 1>>, TRUE, FALSE)
        \/ WriteMouseDone(t)
        \/ AccessCall(t, target[t], "stats")
        \/ InBattleCall(t, target[t])
        \/ DuelPhaseDone(t)
        \/ CloseCall(t, target[t])
        \/ HookCloseDone(t)
        \/ ActivateHooksCall(t, target[t])
        \/ ActivateDone(t)
        \/ TeleportCall(t, target[t], <<3, 4, 5>>, <<0>>)
        \/ WritePositionDone(t)
        \/ GotoCall(t, target[t], 10, 0, 1)
        \/ ReadPositionDone(t)
        \/ WriteYawDone(t)
        \/ KeyHoldDone(t)

\* one caller going through the whole interface, call after call
SpecOps == InitApart /\ [][OpsNext({1})]_vars

\* ------------------------------------------------------------ properties
Effects(tr, kinds) == SelectSeq(tr, LAMBDA e : e.kind \in kinds)

Count(tr, k) == Len(Effects(tr, {k}))

Failures(tr) == SelectSeq(tr, LAMBDA e : "ok" \in DOMAIN e /\ ~e.ok)

\* the exception the failed effect e of the trace tr raised
ErrorOf(tr, e) ==
    CASE e.kind = "ClientToScreen" -> "ConversionFailed"
      [] e.kind \in {"send", "timed_send_key"} -> "SendError"
      [] OTHER -> Effects(tr, {"raised"})[1].error

IsCall(t, op) == call[t].op = op

\* task t is inside "async with self.click_lock"
InLockedSection(t) == IsCall(t, "click") /\ pc[t] \in {"write_mouse", "sleep"}

\* C1: on one Client at most one click call is inside the locked section at any
\* time, and among the button messages a window receives every button-up comes
\* directly after the button-down of the same call: the pairs of two calls are
\* never interleaved, also when a call sleeps between its down and its up.
C1_ClicksNeverInterleave ==
    \A c \in Clients :
        /\ Cardinality({t \in Tasks : InLockedSection(t) /\ call[t].client = c}) <= 1
        /\ \A i \in 1 .. Len(buttons[c]) :
            buttons[c][i][2] = "up" =>
                IF i = 1
                THEN Len(buttons[c]) = MaxButtons
                ELSE buttons[c][i - 1] = <<buttons[c][i][1], "down">>

\* a click sleeps between its down and its up while another click on the same
\* Client waits for the lock
C1_Witness ==
    \E t1, t2 \in Tasks :
        /\ t1 # t2
        /\ IsCall(t1, "click") /\ pc[t1] = "sleep"
        /\ IsCall(t2, "click") /\ pc[t2] = "wait_lock"
        /\ call[t1].client = call[t2].client
        /\ buttons[call[t1].client][Len(buttons[call[t1].client])] = <<t1, "down">>

\* C2: a click call acquires the lock once and releases it once on every exit
\* path: a call that ended, normally or by a failed conversion, remote write or
\* message send, has one acquire and, as its last effect, one release, and ends
\* with the error of the step that failed; the lock is held only while some
\* click call is inside the locked section, so a later click can acquire it.
C2_LockReleasedOnEveryPath ==
    /\ \A t \in Tasks :
        IsCall(t, "click") =>
            /\ pc[t] = "wait_lock" =>
                Count(trace[t], "acquire") = 0 /\ Count(trace[t], "release") = 0
            /\ InLockedSection(t) =>
                /\ Count(trace[t], "acquire") = 1
                /\ Count(trace[t], "release") = 0
                /\ click_lock[call[t].client].locked
            /\ pc[t] = "done" =>
                /\ Count(trace[t], "acquire") = 1
                /\ Count(trace[t], "release") = 1
                /\ trace[t][Len(trace[t])].kind = "release"
                /\ IF Failures(trace[t]) = <<>>
                   THEN result[t] = "ok"
                   ELSE /\ Len(Failures(trace[t])) = 1
                        /\ result[t] = ErrorOf(trace[t], Failures(trace[t])[1])
    /\ \A c \in Clients :
        click_lock[c].locked =>
            \E t \in Tasks : InLockedSection(t) /\ call[t].client = c

\* a click failed inside the locked section, and a click that came after it on
\* the same Client holds the lock
C2_Witness ==
    \E t1, t2 \in Tasks :
        /\ IsCall(t1, "click") /\ pc[t1] = "done" /\ result[t1] = "SendError"
        /\ InLockedSection(t2)
        /\ call[t1].client = call[t2].client
        /\ Count(trace[t2], "acquire") = 1

\* C3: over any sequence of close calls on one Client the hook handler's close
\* is called at most once, also when the process still runs at the second call.
C3_HookCloseAtMostOnce == \A c \in Clients : hook[c].close <= 1

Acted(t) ==
    <<pc[t], call[t], trace[t], result[t]>> # <<pc'[t], call'[t], trace'[t], result'[t]>>

C4Step ==
    \A t \in Tasks :
        call'[t].op = "close" =>
            LET c == call'[t].client
                tr == trace'[t]
            IN  /\ tr[1].kind = "is_running"
                /\ IF ~tr[1].alive
                   THEN /\ tr = <<EIsRunning(FALSE)>>
                        /\ pc'[t] = "done"
                        /\ result'[t] = "ok"
                        /\ Acted(t) =>
                            UNCHANGED <<target, click_lock, cache, constructed,
                                        running, hook, mouse, body_state, buttons>>
                   ELSE /\ tr = <<EIsRunning(TRUE), EHook("close")>>
                        /\ (Acted(t) /\ pc'[t] = "hook_close") =>
                            hook'[c] = [hook[c] EXCEPT !.close = Bump(@)]
                        /\ (Acted(t) /\ pc'[t] = "done") => hook'[c] = hook[c]

\* C4: a close call that finds the process not running returns at once, without
\* an error, without a call to the hook handler and without changing anything
\* of any Client; a close call that finds it running calls the hook handler's
\* close once, and only once, in that call.
C4_CloseShortCircuits == [][C4Step]_vars

\* a close call returned early because the process had exited, after an earlier
\* close call had closed the hooks
C4_Witness ==
    \E t \in Tasks :
        /\ IsCall(t, "close")
        /\ pc[t] = "done"
        /\ trace[t] = <<EIsRunning(FALSE)>>
        /\ hook[call[t].client].close = 1

\* C5: in_battle returns False, and raises nothing, when the read of the duel
\* phase fails with ReadingEnumFailed; when the read succeeds it returns False
\* for the phase "ended" and True for every other phase.
C5_InBattle ==
    \A t \in Tasks :
        (IsCall(t, "in_battle") /\ pc[t] = "done") =>
            LET outcome == trace[t][Len(trace[t])].outcome
            IN  /\ trace[t][Len(trace[t])].kind = "duel_phase"
                /\ outcome = "ReadingEnumFailed" => result[t] = "False"
                /\ outcome = "ended" => result[t] = "False"
                /\ outcome \in DuelPhases \ {"ended"} => result[t] = "True"

\* one in_battle call met ReadingEnumFailed and returned False while another
\* read a phase that is not "ended" and returned True
C5_Witness ==
    \E t1, t2 \in Tasks :
        /\ IsCall(t1, "in_battle") /\ pc[t1] = "done"
        /\ trace[t1][Len(trace[t1])] = EDuelPhase("ReadingEnumFailed")
        /\ result[t1] = "False"
        /\ IsCall(t2, "in_battle") /\ pc[t2] = "done"
        /\ trace[t2][Len(trace[t2])] = EDuelPhase("planning")
        /\ result[t2] = "True"

Writes(tr) == Effects(tr, {"write_position", "write_yaw"})

IsPrefix(a, b) == Len(a) <= Len(b) /\ a = SubSeq(b, 1, Len(a))

\* the remote writes of a teleport call that runs to its end
TeleportWrites(cl) ==
    IF cl.yaw = <<>>
    THEN <<EWritePosition(cl.xyz, TRUE)>>
    ELSE <<EWritePosition(cl.xyz, TRUE), EWriteYaw(cl.yaw[1], TRUE)>>

\* C6: a teleport call that returns has issued one position write and, when a
\* yaw was given (0 included), one yaw write after it, and no yaw write when
\* the yaw is None; whatever happens, a teleport call sends no window message,
\* presses no key, and its writes are the first of those a full call issues.
C6_Teleport ==
    \A t \in Tasks :
        IsCall(t, "teleport") =>
            /\ Effects(trace[t], {"send", "timed_send_key"}) = <<>>
            /\ Count(trace[t], "write_position") <= 1
            /\ call[t].yaw = <<>> => Count(trace[t], "write_yaw") = 0
            /\ (pc[t] = "done" /\ result[t] = "ok") =>
                Writes(trace[t]) = TeleportWrites(call[t])
            /\ Failures(trace[t]) = <<>> =>
                IsPrefix(Writes(trace[t]), TeleportWrites(call[t]))

\* a teleport with yaw 0 returned after the position write and the yaw write
C6_Witness ==
    \E t \in Tasks :
        /\ IsCall(t, "teleport")
        /\ pc[t] = "done" /\ result[t] = "ok"
        /\ call[t].yaw = <<0>>
        /\ Writes(trace[t]) = <<EWritePosition(call[t].xyz, TRUE), EWriteYaw(0, TRUE)>>

\* the square of the distance in the horizontal plane
Horizontal2(xyz, x, y) == (x - xyz[1]) * (x - xyz[1]) + (y - xyz[2]) * (y - xyz[2])

\* C7: a goto call that returns has read the position once, written the yaw
\* once and held the W key once, for a duration d = sqrt(distance2) / divisor
\* with d * (WIZARD_SPEED * speed_multiplier) the distance from the position it
\* read to (x, y) at the same z: the divisor is WIZARD_SPEED * speed_multiplier
\* and distance2 has no z part.  From (0, 0, 0) to (10, 0) that is
\* 10 / (WIZARD_SPEED * speed_multiplier).
C7_GotoDuration ==
    \A t \in Tasks :
        IsCall(t, "goto") =>
            /\ Count(trace[t], "read_position") <= 1
            /\ Count(trace[t], "write_yaw") <= 1
            /\ Count(trace[t], "timed_send_key") <= 1
            /\ (pc[t] = "done" /\ result[t] = "ok") =>
                LET reads == Effects(trace[t], {"read_position"})
                    holds == Effects(trace[t], {"timed_send_key"})
                    speed == WIZARD_SPEED * call[t].speed_multiplier
                IN  /\ Len(reads) = 1
                    /\ Count(trace[t], "write_yaw") = 1
                    /\ Len(holds) = 1
                    /\ holds[1].key = "W"
                    /\ holds[1].seconds.divisor = speed
                    /\ holds[1].seconds.distance2
                         = Horizontal2(reads[1].xyz, call[t].x, call[t].y)
                    /\ (reads[1].xyz = <<0, 0, 0>> /\ call[t].x = 10 /\ call[t].y = 0) =>
                        holds[1].seconds = [distance2 |-> 10 * 10, divisor |-> speed]

\* a goto from a position with z = 5 returned: the z took no part in the duration
C7_Witness ==
    \E t \in Tasks :
        /\ IsCall(t, "goto")
        /\ pc[t] = "done" /\ result[t] = "ok"
        /\ call[t].speed_multiplier = 2
        /\ Effects(trace[t], {"read_position"})[1].xyz = <<3, 4, 5>>
        /\ Effects(trace[t], {"timed_send_key"})[1].seconds
             = [distance2 |-> 65, divisor |-> 2 * WIZARD_SPEED]

ConversionsFailed(tr) ==
    SelectSeq(tr, LAMBDA e : e.kind = "ClientToScreen" /\ ~e.ok)

\* C8: when ClientToScreen fails, the call ends with the conversion error, which
\* no other failure gives, and has written no mouse position and sent no
\* message; a set_mouse_position call with convert_from_client false does not
\* call ClientToScreen and writes the coordinates it was given, and one with
\* convert_from_client true writes the coordinates ClientToScreen gave.
C8_ConversionFailure ==
    \A t \in Tasks :
        /\ (call[t].op \in {"click", "set_mouse_position"}
              /\ ConversionsFailed(trace[t]) # <<>>) =>
            /\ pc[t] = "done"
            /\ result[t] = "ConversionFailed"
            /\ Effects(trace[t], {"write_mouse_position", "send"}) = <<>>
        /\ (call[t].op \in {"click", "set_mouse_position"}
              /\ result[t] = "ConversionFailed") =>
            ConversionsFailed(trace[t]) # <<>>
        /\ IsCall(t, "set_mouse_position") =>
            LET writes == Effects(trace[t], {"write_mouse_position"})
                wanted == IF call[t].convert_from_client
                          THEN ClientToScreen(call[t].client, call[t].xy)
                          ELSE call[t].xy
            IN  /\ ~call[t].convert_from_client =>
                    Count(trace[t], "ClientToScreen") = 0
                /\ Len(writes) <= 1
                /\ pc[t] = "write_mouse" => call[t].sm_xy = wanted
                /\ writes # <<>> => writes[1].xy = wanted
                /\ (pc[t] = "done" /\ result[t] = "ok") =>
                    /\ writes = <<EWriteMouse(wanted, TRUE)>>
                    /\ mouse[call[t].client] = wanted

\* a set_mouse_position call ended with the conversion error and no effect but
\* the failed conversion
C8_Witness ==
    \E t \in Tasks :
        /\ IsCall(t, "set_mouse_position")
        /\ call[t].convert_from_client
        /\ pc[t] = "done"
        /\ result[t] = "ConversionFailed"
        /\ trace[t] = <<EConvert(call[t].xy, FALSE)>>

\* C9: every window message a click call sends, the mouse-move of its
\* set_mouse_position step included, is sent with PostMessageW when use_post is
\* true and with SendMessageW when it is false.
C9_UsePostSelectsDelivery ==
    \A t \in Tasks :
        IsCall(t, "click") =>
            \A i \in 1 .. Len(trace[t]) :
                trace[t][i].kind = "send" =>
                    trace[t][i].method = SendMethod(call[t].use_post)

Gets(tr) == Effects(tr, {"get"})

\* C10: per Client, each of process_id, stats, body, duel and quest_position is
\* constructed at most once: never before its first read and once after it;
\* every read yields the value stored in the Client; and no accessor object of
\* one Client is an accessor object of another.
C10_AccessorsCreatedOnce ==
    /\ \A c \in Clients, k \in Kinds :
        /\ constructed[c][k] <= 1
        /\ constructed[c][k] = 0 <=> cache[c][k] = 0
    /\ \A t \in Tasks :
        call[t].op # "none" =>
            \A i \in 1 .. Len(Gets(trace[t])) :
                LET e == Gets(trace[t])[i]
                IN  /\ e.obj # 0
                    /\ e.obj = cache[call[t].client][e.name]
                    /\ constructed[call[t].client][e.name] = 1
    /\ \A c1, c2 \in Clients, k1, k2 \in ObjectKinds :
        (c1 # c2 /\ cache[c1][k1] # 0) => cache[c1][k1] # cache[c2][k2]

\* two tasks read the same accessor of one Client, one of them through goto,
\* and got the one object that was constructed
C10_Witness ==
    \E t1, t2 \in Tasks :
        /\ t1 # t2
        /\ IsCall(t1, "get") /\ call[t1].name = "body"
        /\ IsCall(t2, "goto")
        /\ call[t2].client = call[t1].client
        /\ Len(Gets(trace[t2])) = 2
        /\ Gets(trace[t2])[2] = trace[t1][1]
        /\ constructed[call[t1].client]["body"] = 1

\* what the Client c keeps for itself: its lock, its accessors, its hook handler
OwnState(c) == <<click_lock[c], cache[c], constructed[c], hook[c]>>

C11Step ==
    /\ \A t \in Tasks : pc[t] # "wait_lock" /\ pc'[t] # "wait_lock"
    /\ \A c1, c2 \in Clients :
        (c1 # c2 /\ click_lock'[c1].id # 0) => click_lock'[c1].id # click_lock'[c2].id
    /\ \A c \in Clients :
        OwnState(c)' # OwnState(c) =>
            \E t \in Tasks : Acted(t) /\ call'[t].client = c

\* C11: Clients share no state.  Each Client has a lock of its own, so a click
\* never waits for a click on another Client and takes its lock, sends its
\* down and its up while the other click holds the other lock; and a step of an
\* operation on one Client leaves the lock, the accessors and the hook handler
\* of every other Client as they were.
C11_ClientsAreIndependent == [][C11Step]_vars

\* clicks on two Clients are both between their down and their up, each holding
\* the lock of its Client
C11_Witness ==
    \E t1, t2 \in Tasks :
        /\ IsCall(t1, "click") /\ pc[t1] = "sleep"
        /\ IsCall(t2, "click") /\ pc[t2] = "sleep"
        /\ call[t1].client # call[t2].client
        /\ click_lock[call[t1].client].locked
        /\ click_lock[call[t2].client].locked
        /\ click_lock[call[t1].client].id # click_lock[call[t2].client].id

\* the exceptions the awaited hook-subsystem calls of a call raised
RaisedIn(tr) == Effects(tr, {"raised"})

C12Step ==
    /\ (\A t \in Tasks : pc[t] = "idle") => \A c \in Clients : hook[c].activate = 0
    /\ \A c \in Clients :
        hook'[c].activate # hook[c].activate =>
            /\ hook'[c].activate = hook[c].activate + 1
            /\ \E t \in Tasks :
                /\ Acted(t)
                /\ call'[t] = [op |-> "activate_hooks", client |-> c]
                /\ pc'[t] = "activate"
    /\ \A t \in Tasks :
        call'[t].op = "activate_hooks" =>
            /\ (Acted(t) /\ pc'[t] = "activate") =>
                hook'[call'[t].client].activate = Bump(hook[call'[t].client].activate)
            /\ Effects(trace'[t], {"hook_handler"}) = <<EHook("activate_all_hooks")>>
            /\ pc'[t] = "done" =>
                IF RaisedIn(trace'[t]) = <<>>
                THEN result'[t] = "ok"
                ELSE /\ Len(RaisedIn(trace'[t])) = 1
                     /\ result'[t] = RaisedIn(trace'[t])[1].error

\* C12: after construction the hook handler has received no activate_all_hooks
\* call; its count of such calls changes only in the step that begins an
\* activate_hooks call on that Client, and then by one; an activate_hooks call
\* issues one activate_all_hooks call and ends with the exception that call
\* raised, or normally when it raised none.
C12_OnlyActivateHooksActivates == [][C12Step]_vars

\* an activate_hooks call ended with the exception of the hook handler, after
\* clicks, an in_battle and a teleport on the same Client that activated nothing
C12_Witness ==
    \E t \in Tasks :
        /\ IsCall(t, "activate_hooks")
        /\ pc[t] = "done"
        /\ result[t] = "HookNotActive"
        /\ trace[t] = <<EHook("activate_all_hooks"), ERaised("HookNotActive")>>
        /\ hook[call[t].client].activate = 1
        /\ hook[call[t].client].close = 1
        /\ click_lock[call[t].client].id # 0
        /\ cache[call[t].client]["duel"] # 0
        /\ cache[call[t].client]["body"] # 0

\* what a step is, without its values: the kind of the effect and, of a window
\* message, its code and its two parameters
Shape(tr) ==
    [i \in 1 .. Len(tr) |->
        IF tr[i].kind = "send"
        THEN <<"send", tr[i].code, tr[i].wparam, tr[i].lparam>>
        ELSE <<tr[i].kind, 0, 0, 0>>]

\* the steps of a click call that succeeds, with the codes 0x200 of the mouse
\* move, 0x201 and 0x202 of the left button, 0x204 and 0x205 of the right one
ClickShape(cl) ==
    LET down == IF cl.right_click THEN 516 ELSE 513
        up == IF cl.right_click THEN 517 ELSE 514
    IN  <<<<"acquire", 0, 0, 0>>, <<"ClientToScreen", 0, 0, 0>>,
          <<"write_mouse_position", 0, 0, 0>>, <<"send", 512, 0, 0>>,
          <<"send", down, 1, 0>>>>
        \o (IF cl.sleep_duration > 0 THEN <<<<"sleep", 0, 0, 0>>>> ELSE <<>>)
        \o <<<<"send", up, 0, 0>>, <<"release", 0, 0, 0>>>>

\* C13: a click call that succeeded has done, in this order: lock acquired,
\* mouse position set (conversion, remote write, mouse move), one button-down
\* message, a sleep if and only if sleep_duration > 0, one button-up message,
\* lock released; a call that has not failed has done the first of these steps
\* in that order; the button-up code is the button-down code + 1, the codes are
\* 0x201 and 0x202 for the left button and 0x204 and 0x205 for the right one
\* (the left button-down + 3), and a call sends no code of the other button.
C13_ClickStepsInOrder ==
    \A t \in Tasks :
        IsCall(t, "click") =>
            LET sends == Effects(trace[t], {"send"})
                down == IF call[t].right_click THEN 513 + 3 ELSE 513
            IN  /\ (pc[t] = "done" /\ result[t] = "ok") =>
                    /\ Shape(trace[t]) = ClickShape(call[t])
                    /\ Failures(trace[t]) = <<>>
                    /\ trace[t][1].lock = trace[t][Len(trace[t])].lock
                /\ Failures(trace[t]) = <<>> =>
                    IsPrefix(Shape(trace[t]), ClickShape(call[t]))
                /\ pc[t] = "sleep" =>
                    /\ call[t].sleep_duration > 0
                    /\ trace[t][Len(trace[t])] = ESleep(call[t].sleep_duration)
                    /\ Len(sends) = 2
                /\ call[t].sleep_duration = 0 => Count(trace[t], "sleep") = 0
                /\ \A i \in 1 .. Len(sends) :
                    /\ sends[i].code \in {512, down, down + 1}
                    /\ i <= 3
                    /\ i = 2 => sends[i].code = down
                    /\ i = 3 => sends[i].code = sends[2].code + 1

\* a right click with a sleep succeeded: 0x204, the sleep, 0x205
C13_Witness ==
    \E t \in Tasks :
        /\ IsCall(t, "click")
        /\ call[t].right_click
        /\ call[t].sleep_duration > 0
        /\ pc[t] = "done" /\ result[t] = "ok"
        /\ Len(trace[t]) = 8
        /\ trace[t][5].code = 516
        /\ trace[t][6].kind = "sleep"
        /\ trace[t][7].code = 517

\* C14: a set_mouse_position call that succeeded has written the coordinates
\* (converted if asked) to the remote mouse position once, then sent one
\* message 0x200 with both parameters 0, and returned what the remote write
\* returned; a call never writes or sends twice and never sends before it
\* wrote; when the remote write raises, the call ends with that exception and
\* has sent no message and returned nothing.
C14_SetMousePosition ==
    \A t \in Tasks :
        IsCall(t, "set_mouse_position") =>
            LET tr == trace[t]
                n == Len(tr)
                c == call[t].client
                wanted == IF call[t].convert_from_client
                          THEN ClientToScreen(c, call[t].xy)
                          ELSE call[t].xy
                writes == Effects(tr, {"write_mouse_position"})
                sends == Effects(tr, {"send"})
            IN  /\ Len(writes) <= 1
                /\ Len(sends) <= 1
                /\ \A i \in 1 .. n :
                    tr[i].kind = "send" =>
                        /\ i > 1
                        /\ tr[i - 1] = EWriteMouse(wanted, TRUE)
                        /\ tr[i].code = 512 /\ tr[i].wparam = 0 /\ tr[i].lparam = 0
                /\ (pc[t] = "done" /\ result[t] = "ok") =>
                    /\ n = (IF call[t].convert_from_client THEN 4 ELSE 3)
                    /\ tr[n - 2] = EWriteMouse(wanted, TRUE)
                    /\ tr[n - 1] = ESend(SendMethod(call[t].use_post), 512, 0, 0, TRUE)
                    /\ tr[n].kind = "return"
                    /\ tr[n].value = tr[n].write_result
                /\ (writes # <<>> /\ ~writes[1].ok) =>
                    /\ pc[t] = "done"
                    /\ result[t] \in HookOutcomes \ {"ok"}
                    /\ tr[n - 1] = EWriteMouse(wanted, FALSE)
                    /\ tr[n] = ERaised(result[t])
                    /\ sends = <<>>
                    /\ Count(tr, "return") = 0

\* a set_mouse_position call without conversion wrote (3, 1), sent the mouse
\* move with PostMessageW and returned the value the write gave, which was not
\* None
C14_Witness ==
    \E t \in Tasks :
        /\ IsCall(t, "set_mouse_position")
        /\ pc[t] = "done" /\ result[t] = "ok"
        /\ trace[t] = <<EWriteMouse(<<3, 1>>, TRUE),
                        ESend("PostMessageW", WM_MOUSEMOVE, 0, 0, TRUE),
                        EReturn(<<1>>, <<1>>)>>
        /\ mouse[call[t].client] = <<3, 1>>

\* C15: an in_battle call whose read of the duel phase raised anything but
\* ReadingEnumFailed ends with that exception, and returns False only after
\* ReadingEnumFailed or the phase "ended"; a teleport, goto, set_mouse_position,
\* click or activate_hooks call in which an awaited call of the hook subsystem
\* raised, ReadingEnumFailed included, does nothing more (but release the
\* click lock) and ends with that very exception, and ends with such an
\* exception only when one was raised.
C15_OnlyInBattleSwallows ==
    \A t \in Tasks :
        /\ (IsCall(t, "in_battle") /\ pc[t] = "done") =>
            LET outcome == trace[t][Len(trace[t])].outcome
            IN  /\ outcome \in ReadErrors \ {"ReadingEnumFailed"} => result[t] = outcome
                /\ result[t] = "False" => outcome \in {"ReadingEnumFailed", "ended"}
                /\ result[t] = "True" => outcome \in DuelPhases \ {"ended"}
                /\ result[t] \in ReadErrors => outcome = result[t]
        /\ call[t].op \in {"teleport", "goto", "set_mouse_position", "click",
                            "activate_hooks"} =>
            LET tr == trace[t]
                n == Len(tr)
                last == IF call[t].op = "click" THEN n - 1 ELSE n
            IN  /\ RaisedIn(tr) # <<>> =>
                    /\ pc[t] = "done"
                    /\ Len(RaisedIn(tr)) = 1
                    /\ tr[last].kind = "raised"
                    /\ result[t] = tr[last].error
                    /\ result[t] \notin {"ok", "True", "False"}
                /\ result[t] \in HookOutcomes \ {"ok"} => RaisedIn(tr) # <<>>

\* an in_battle call ended with the "hook not active" failure of its read
C15_Witness ==
    \E t \in Tasks :
        /\ IsCall(t, "in_battle")
        /\ pc[t] = "done"
        /\ trace[t][Len(trace[t])] = EDuelPhase("HookNotActive")
        /\ result[t] = "HookNotActive"
        /\ body_state[call[t].client].position = <<3, 4, 5>>
        /\ hook[call[t].client].activate > 0

GotoKinds == <<"read_position", "write_yaw", "timed_send_key">>

\* C16: the position read, the yaw write and the key hold of a goto call happen
\* in this order, each at most once and each only after the one before it has
\* succeeded: after a failed position read there is no yaw write and no key
\* hold, after a failed yaw write no key hold, and the call waits for the key
\* hold only when the yaw write has returned.
C16_GotoStepsInOrder ==
    \A t \in Tasks :
        IsCall(t, "goto") =>
            LET eff == Effects(trace[t], {"read_position", "write_yaw", "timed_send_key"})
            IN  /\ Len(eff) <= 3
                /\ \A i \in 1 .. Len(eff) :
                    /\ eff[i].kind = GotoKinds[i]
                    /\ i < Len(eff) => eff[i].ok
                    /\ ~eff[i].ok => pc[t] = "done" /\ result[t] # "ok"
                /\ pc[t] = "read_position" => eff = <<>>
                /\ pc[t] = "write_yaw" => (Len(eff) = 1 /\ eff[1].ok)
                /\ pc[t] = "key_hold" =>
                    /\ Len(eff) = 2
                    /\ eff[2] = EWriteYaw(call[t].yaw[1], TRUE)
                /\ (pc[t] = "done" /\ result[t] = "ok") => Len(eff) = 3

\* a goto call ended when its yaw write failed, without a key hold
C16_Witness ==
    \E t \in Tasks :
        /\ IsCall(t, "goto")
        /\ pc[t] = "done"
        /\ result[t] = "HookNotActive"
        /\ Len(trace[t]) = 5
        /\ trace[t][2].kind = "read_position" /\ trace[t][2].ok
        /\ trace[t][4] = EWriteYaw(call[t].yaw[1], FALSE)
        /\ trace[t][5] = ERaised("HookNotActive")
        /\ Count(trace[t], "timed_send_key") = 0

\* C17: a Client has no click lock until a click call is made on it and
\* constructs a lock at most once; from then on the attribute holds that one
\* lock, never None again and never another lock, and every click call on the
\* Client, whenever it started, waits for, acquires and releases that lock.
C17_OneLockPerClient ==
    \A c \in Clients :
        /\ constructed[c]["click_lock"] <= 1
        /\ click_lock[c].id = 0 <=> constructed[c]["click_lock"] = 0
        /\ click_lock[c].id # 0 => click_lock[c].id = ObjId(c, "click_lock", 1)
        /\ click_lock[c].id = 0 =>
            /\ click_lock[c] = NoLock
            /\ buttons[c] = <<>>
            /\ \A t \in Tasks : ~(IsCall(t, "click") /\ call[t].client = c)
        /\ \A t \in Tasks :
            (IsCall(t, "click") /\ call[t].client = c) =>
                /\ click_lock[c].id # 0
                /\ \A i \in 1 .. Len(trace[t]) :
                    trace[t][i].kind \in {"acquire", "release"} =>
                        trace[t][i].lock = click_lock[c].id
                /\ pc[t] = "wait_lock" =>
                    \E i \in 1 .. Len(click_lock[c].waiters) :
                        click_lock[c].waiters[i] = t

\* a click holds the one lock of its Client after a click of another caller has
\* held and released it, and that caller waits for the same lock again
C17_Witness ==
    \E t1, t2 \in Tasks :
        /\ IsCall(t1, "click") /\ pc[t1] = "write_mouse"
        /\ IsCall(t2, "click") /\ pc[t2] = "wait_lock"
        /\ call[t1].client = call[t2].client
        /\ click_lock[call[t1].client].waiters = <<t2>>
        /\ trace[t1] = <<EAcquire(click_lock[call[t1].client].id),
                         EConvert(call[t1].xy, TRUE)>>
        /\ constructed[call[t1].client]["click_lock"] = 1
        /\ Len(buttons[call[t1].client]) = MaxButtons
        /\ buttons[call[t1].client][MaxButtons] = <<t2, "up">>

\* the click call of task t has come to its end, having held the lock
ClickEnded(t) ==
    /\ IsCall(t, "click")
    /\ pc[t] = "done"
    /\ Count(trace[t], "acquire") = 1

\* C18: under fair scheduling, a click call that waits for the click lock
\* comes to acquire it and to its end, and so does a click call that holds the
\* lock: no click call waits forever, whether the calls before it succeeded or
\* failed inside the locked section.
C18_WaitingClickCompletes ==
    \A t \in Tasks :
        /\ (IsCall(t, "click") /\ pc[t] = "wait_lock") ~> ClickEnded(t)
        /\ InLockedSection(t) ~> ClickEnded(t)

\* a click failed inside the locked section and released the lock while another
\* click still waits for it
C18_Witness ==
    \E t1, t2 \in Tasks :
        /\ IsCall(t1, "click") /\ pc[t1] = "done"
        /\ result[t1] \in {"SendError", "HookNotActive"}
        /\ IsCall(t2, "click") /\ pc[t2] = "wait_lock"
        /\ call[t1].client = call[t2].client
        /\ ~click_lock[call[t2].client].locked
        /\ click_lock[call[t2].client].waiters = <<t2>>

\* C19: while a click call is suspended between its button-down and its
\* button-up message, the remote mouse position is the position that call
\* wrote: no other call on the Client has changed it.
C19_MousePositionKeptUntilUp ==
    \A t \in Tasks :
        (IsCall(t, "click") /\ pc[t] = "sleep") =>
            mouse[call[t].client] = call[t].sm_xy

====
